---- MODULE Spec2Model ----
(***************************************************************************)
(* A model of the option pricing engines: the dispatch-by-label contract   *)
(* PricingModel (base.py), the binomial lattice engine Binomial            *)
(* (Binomial.py) and the Monte Carlo engine MonteCarloSimulation (MCS.py). *)
(*                                                                         *)
(* Floats are fixed-point numbers with Scale units per 1.0, together with  *)
(* the IEEE-754 specials (+inf, -inf, nan) that numpy's float64 arithmetic *)
(* produces instead of raising.  A Python value is a record [t, v]:        *)
(*   t = "fin"  : the float v / Scale                                      *)
(*   t = "inf"  : +inf (v = 1) or -inf (v = -1)                            *)
(*   t = "nan"  : not a number                                             *)
(*   t = "int"  : the Python int v                                         *)
(*   t = "none" : None                                                     *)
(***************************************************************************)
EXTENDS Integers, Sequences, FiniteSets

VARIABLES binomial,      \* the caller's Binomial instance, or NoObject
          result,        \* what the caller's last call did and how it ended
          engines,       \* the MonteCarloSimulation receivers' attributes
          np_random,     \* the state of numpy's global random generator
          arrays_built,  \* how many arrays np.zeros has allocated so far
          prev_paths     \* per receiver, the ensemble its previous simulation stored

vars == <<binomial, result, engines, np_random, arrays_built, prev_paths>>

\* ------------------------------------------------------------------ bounds

Scale == 1000
ExpTerms == 6
MaxSteps == 3
MaxDays == 3
MaxSims == 2
MaxArrays == 3
RngModulus == 4

\* ------------------------------------------------------- program constants

DaysPerYear == 365
SEED == 20

CALL == "Call Option"
PUT == "Put Option"

\* ---------------------------------------------------------- Python values

F(n) == [t |-> "fin", v |-> n]
PyInt(n) == [t |-> "int", v |-> n]
None == [t |-> "none", v |-> 0]
PosInf == [t |-> "inf", v |-> 1]
NaN == [t |-> "nan", v |-> 0]

IsFin(a) == a.t = "fin"
IsNaN(a) == a.t = "nan"

Sign(n) == IF n > 0 THEN 1 ELSE IF n < 0 THEN -1 ELSE 0
SignOf(a) == Sign(a.v)

FNeg(a) == IF IsNaN(a) THEN NaN ELSE [t |-> a.t, v |-> -a.v]

FAdd(a, b) ==
    IF IsNaN(a) \/ IsNaN(b) THEN NaN
    ELSE IF IsFin(a) /\ IsFin(b) THEN F(a.v + b.v)
    ELSE IF IsFin(a) THEN b
    ELSE IF IsFin(b) THEN a
    ELSE IF a.v = b.v THEN a
    ELSE NaN

FSub(a, b) == FAdd(a, FNeg(b))

FMul(a, b) ==
    IF IsNaN(a) \/ IsNaN(b) THEN NaN
    ELSE IF IsFin(a) /\ IsFin(b) THEN F((a.v * b.v) \div Scale)
    ELSE IF SignOf(a) * SignOf(b) = 0 THEN NaN
    ELSE [t |-> "inf", v |-> SignOf(a) * SignOf(b)]

\* float64 division as numpy performs it: a zero divisor gives inf or nan
FDiv(a, b) ==
    IF IsNaN(a) \/ IsNaN(b) THEN NaN
    ELSE IF IsFin(a) /\ IsFin(b)
         THEN IF b.v = 0
              THEN IF a.v = 0 THEN NaN ELSE [t |-> "inf", v |-> Sign(a.v)]
              ELSE F((a.v * Scale) \div b.v)
    ELSE IF IsFin(a) THEN F(0)
    ELSE IF IsFin(b) THEN [t |-> "inf", v |-> a.v * (IF b.v < 0 THEN -1 ELSE 1)]
    ELSE NaN

FLeq(a, b) ==
    IF IsNaN(a) \/ IsNaN(b) THEN FALSE
    ELSE IF IsFin(a) /\ IsFin(b) THEN a.v <= b.v
    ELSE IF IsFin(a) THEN b.v > 0
    ELSE IF IsFin(b) THEN a.v < 0
    ELSE a.v <= b.v

\* np.maximum: the larger element, nan when either is nan
FMax(a, b) == IF IsNaN(a) \/ IsNaN(b) THEN NaN ELSE IF FLeq(a, b) THEN b ELSE a

RECURSIVE ExpSeries(_, _, _)
ExpSeries(x, k, term) ==
    IF k > ExpTerms THEN 0
    ELSE term + ExpSeries(x, k + 1, (term * x) \div (k * Scale))

\* np.exp
Exp(a) ==
    IF IsNaN(a) THEN NaN
    ELSE IF IsFin(a) THEN F(ExpSeries(a.v, 1, Scale))
    ELSE IF a.v > 0 THEN PosInf ELSE F(0)

RECURSIVE SqrtSearch(_, _, _)
SqrtSearch(n, lo, hi) ==
    IF lo >= hi THEN lo
    ELSE LET mid == (lo + hi + 1) \div 2
         IN  IF mid * mid <= n THEN SqrtSearch(n, mid, hi) ELSE SqrtSearch(n, lo, mid - 1)

\* the integer square root (the search stays below the square root of 2^31)
ISqrt(n) == SqrtSearch(n, 0, IF n < 46340 THEN n ELSE 46340)

\* np.sqrt
Sqrt(a) ==
    IF IsNaN(a) THEN NaN
    ELSE IF IsFin(a) THEN (IF a.v < 0 THEN NaN ELSE F(ISqrt(a.v * Scale)))
    ELSE IF a.v > 0 THEN PosInf ELSE NaN

RECURSIVE FPow(_, _)
\* x ** j for an int j >= 0
FPow(a, j) == IF j = 0 THEN F(Scale) ELSE FMul(FPow(a, j - 1), a)

\* int / int and float / int in Python (the divisor is nonzero)
FromInt(n) == F(n * Scale)

\* ------------------------------------------------------------ outcomes

\* How a call ends: it returns a value or raises.  routine names the valuation
\* routine that ran; prob_up and trace are the lattice routine's locals (the
\* up-probability, and option_prices before the loop and after each pass).
Return(val) ==
    [kind |-> "return", value |-> val, error |-> "", routine |-> "",
     prob_up |-> None, trace |-> <<>>]

Raise(err) ==
    [kind |-> "raise", value |-> None, error |-> err, routine |-> "",
     prob_up |-> None, trace |-> <<>>]

\* ------------------------------------------------------------- base.py

\* the abstract hooks of PricingModel
PricingModelAbstract == {"_compute_call_price", "_compute_put_price"}

\* the methods each engine class defines in its own body
ClassMethods(cls) ==
    IF cls = "Binomial"
    THEN {"__init__", "_compute_call_price", "_compute_put_price"}
    ELSE IF cls = "MonteCarloSimulation"
    THEN {"__init__", "simulate_price_paths", "_compute_call_option_price",
          "_compute_put_option_price", "plot_simulation_paths"}
    ELSE {}

\* ABCMeta: the abstract methods a subclass of PricingModel leaves unimplemented
AbstractMethods(cls) == PricingModelAbstract \ ClassMethods(cls)

\* ABCMeta refuses to instantiate a class that still has abstract methods
Instantiable(cls) == AbstractMethods(cls) = {}

NoObject ==
    [cls |-> "none", spot_price |-> None, strike_price |-> None,
     time_to_maturity |-> None, risk_free_rate |-> None, volatility |-> None,
     steps |-> 0]

\* ---------------------------------------------------------- Binomial.py

\* Binomial.__init__
BinomialInit(spot_price, strike_price, time_to_maturity_days, risk_free_rate, volatility, steps) ==
    [cls |-> "Binomial", spot_price |-> spot_price, strike_price |-> strike_price,
     time_to_maturity |-> FDiv(FromInt(time_to_maturity_days), FromInt(DaysPerYear)),
     risk_free_rate |-> risk_free_rate, volatility |-> volatility, steps |-> steps]

\* the locals the two valuation routines compute before the payoff (steps is
\* nonzero where they are used)
Locals(self) ==
    LET delta_t == FDiv(self.time_to_maturity, FromInt(self.steps))
        up_factor == Exp(FMul(self.volatility, Sqrt(delta_t)))
        down_factor == FDiv(F(Scale), up_factor)
        risk_free_compound == Exp(FMul(self.risk_free_rate, delta_t))
        prob_up == FDiv(FSub(risk_free_compound, down_factor),
                        FSub(up_factor, down_factor))
    IN  [delta_t |-> delta_t, up_factor |-> up_factor, down_factor |-> down_factor,
         final_asset_prices |->
            [j \in 0..self.steps |->
                FMul(FMul(self.spot_price, FPow(up_factor, j)),
                     FPow(down_factor, self.steps - j))],
         risk_free_compound |-> risk_free_compound,
         prob_up |-> prob_up,
         prob_down |-> FSub(F(Scale), prob_up),
         discount |-> Exp(FMul(FNeg(self.risk_free_rate), delta_t))]

\* np.maximum(final_asset_prices - self.strike_price, 0.0)
CallPayoff(self, final_asset_prices) ==
    [j \in 0..self.steps |-> FMax(FSub(final_asset_prices[j], self.strike_price), F(0))]

\* np.maximum(self.strike_price - final_asset_prices, 0.0)
PutPayoff(self, final_asset_prices) ==
    [j \in 0..self.steps |-> FMax(FSub(self.strike_price, final_asset_prices[j]), F(0))]

\* one node of the back-calculation: the discounted risk-neutral expectation
Node(loc, up, same) ==
    FMul(loc.discount, FAdd(FMul(loc.prob_up, up), FMul(loc.prob_down, same)))

\* option_prices[:-1] = ...: the right-hand side is built from the old vector,
\* then assigned to indices 0..steps-1; index steps keeps its value
InductionPass(loc, steps, option_prices) ==
    [i \in 0..steps |->
        IF i < steps THEN Node(loc, option_prices[i + 1], option_prices[i])
        ELSE option_prices[i]]

\* range(self.steps - 1, 0, -1): one pass too few
BackRangeShort(steps) == [k \in 1..(IF steps > 0 THEN steps - 1 ELSE 0) |-> steps - k]

\* range(self.steps - 1, -1, -1)
BackRange(steps) == [k \in 1..steps |-> steps - k]

RECURSIVE BackCalculation(_, _, _, _)
\* the loop, n passes: the vector before the loop and after each pass
BackCalculation(loc, steps, option_prices, n) ==
    IF n = 0 THEN <<option_prices>>
    ELSE LET before == BackCalculation(loc, steps, option_prices, n - 1)
         IN  Append(before, InductionPass(loc, steps, before[Len(before)]))

\* what a valuation routine returns from its locals and its terminal payoff
Lattice(self, routine, loc, payoff) ==
    LET trace == BackCalculation(loc, self.steps, payoff, Len(BackRange(self.steps)))
    IN  [kind |-> "return", value |-> trace[Len(trace)][0], error |-> "",
         routine |-> routine, prob_up |-> loc.prob_up, trace |-> trace]

\* Binomial._compute_call_price; self.time_to_maturity / self.steps divides a
\* Python float by a Python int and raises when steps is 0
_compute_call_price(self) ==
    IF self.steps = 0
    THEN [Raise("ZeroDivisionError") EXCEPT !.routine = "Binomial._compute_call_price"]
    ELSE LET loc == Locals(self)
         IN  Lattice(self, "Binomial._compute_call_price", loc,
                     CallPayoff(self, loc.final_asset_prices))

\* Binomial._compute_put_price
_compute_put_price(self) ==
    IF self.steps = 0
    THEN [Raise("ZeroDivisionError") EXCEPT !.routine = "Binomial._compute_put_price"]
    ELSE LET loc == Locals(self)
         IN  Lattice(self, "Binomial._compute_put_price", loc,
                     PutPayoff(self, loc.final_asset_prices))

\* ------------------------------------------------- base.py: the dispatch

\* self.<name>(): the class's own method, else the body PricingModel inherits
\* to it (the abstract hooks' bodies are "pass", which returns None)
CallHook(self, name) ==
    IF name \in ClassMethods(self.cls)
    THEN IF name = "_compute_call_price" THEN _compute_call_price(self)
         ELSE _compute_put_price(self)
    ELSE [Return(None) EXCEPT !.routine = "PricingModel." \o name]

\* PricingModel.compute_option_price
compute_option_price(self, option_type) ==
    IF option_type = CALL THEN CallHook(self, "_compute_call_price")
    ELSE IF option_type = PUT THEN CallHook(self, "_compute_put_price")
    ELSE Return(PyInt(-1))

\* ------------------------------------------------------------ the caller

Labels == {CALL, PUT, "Call", "put option", ""}

Spots == {F(9 * Scale), F(10 * Scale), F(12 * Scale)}
Strikes == {F(10 * Scale)}
MaturityDays == {DaysPerYear, 2 * DaysPerYear}
\* 0, 5% and 50% a year
Rates == {F(0), F(Scale \div 20), F(Scale \div 2)}
\* 0 and 20% a year
Volatilities == {F(0), F(Scale \div 5)}
StepCounts == 0..MaxSteps

\* what the caller's last call was, with its outcome
Called(op, label, out) ==
    [op |-> op, label |-> label, engine |-> 0, kind |-> out.kind, value |-> out.value,
     error |-> out.error, routine |-> out.routine, prob_up |-> out.prob_up,
     trace |-> out.trace]

NoCall == Called("", "", Return(None))

\* cls(...): ABCMeta's check, then __init__
NewBinomial ==
    \E spot_price \in Spots, strike_price \in Strikes, days \in MaturityDays,
       risk_free_rate \in Rates, volatility \in Volatilities, steps \in StepCounts :
        /\ IF Instantiable("Binomial")
           THEN /\ binomial' = BinomialInit(spot_price, strike_price, days,
                                            risk_free_rate, volatility, steps)
                /\ result' = Called("Binomial", "", Return(None))
           ELSE /\ binomial' = binomial
                /\ result' = Called("Binomial", "", Raise("TypeError"))
        /\ UNCHANGED <<engines, np_random, arrays_built, prev_paths>>

\* MonteCarloSimulation(...): no instance is made unless the check passes
NewMonteCarlo ==
    /\ IF Instantiable("MonteCarloSimulation")
       THEN result' = Called("MonteCarloSimulation", "", Return(None))
       ELSE result' = Called("MonteCarloSimulation", "", Raise("TypeError"))
    /\ UNCHANGED <<binomial, engines, np_random, arrays_built, prev_paths>>

\* binomial.compute_option_price(label)
BinomialPrice ==
    \E label \in Labels :
        /\ binomial # NoObject
        /\ result' = Called("compute_option_price", label,
                            compute_option_price(binomial, label))
        /\ UNCHANGED <<binomial, engines, np_random, arrays_built, prev_paths>>

\* --------------------------------------------------------------- MCS.py

\* self.simulation_results: the attribute is unset until something assigns it,
\* then holds None or an array (id tells one allocated array from another;
\* rows[t][c] is the price of path c at step t)
Unset == [state |-> "unset", id |-> 0, rows |-> <<>>]
IsNone == [state |-> "None", id |-> 0, rows |-> <<>>]
NdArray(id, rows) == [state |-> "ndarray", id |-> id, rows |-> rows]

\* MonteCarloSimulation.__init__ (maturity_days is nonzero: self.dt divides by it)
MCInit(spot_price, strike_price, maturity_days, risk_free_rate, volatility, num_simulations) ==
    LET time_to_maturity == FDiv(FromInt(maturity_days), FromInt(DaysPerYear))
    IN  [spot_price |-> spot_price, strike_price |-> strike_price,
         time_to_maturity |-> time_to_maturity,
         risk_free_rate |-> risk_free_rate, volatility |-> volatility,
         num_simulations |-> num_simulations, num_steps |-> maturity_days,
         dt |-> FDiv(time_to_maturity, FromInt(maturity_days)),
         simulation_results |-> Unset]

\* numpy's global generator: a seed fixes the state, each draw advances it
Seed(s) == s % RngModulus
RngStep(s) == (5 * s + 3) % RngModulus
RECURSIVE RngSkip(_, _)
RngSkip(s, n) == IF n = 0 THEN s ELSE RngSkip(RngStep(s), n - 1)
\* the standard-normal value the generator yields on reaching state s
Normal(s) == F(((s % 5) - 2) * (Scale \div 2))

\* np.random.standard_normal(n): n draws, and the state they leave
standard_normal(rng, n) ==
    [values |-> [c \in 0..(n - 1) |-> Normal(RngSkip(rng, c + 1))],
     rng |-> RngSkip(rng, n)]

\* price_paths[t - 1] * np.exp((r - 0.5 * sigma ** 2) * dt + sigma * np.sqrt(dt) * Z)
GBMStep(self, row, random_values) ==
    LET drift == FMul(FSub(self.risk_free_rate,
                           FMul(F(Scale \div 2), FPow(self.volatility, 2))),
                      self.dt)
        spread == FMul(self.volatility, Sqrt(self.dt))
    IN  [c \in 0..(self.num_simulations - 1) |->
            FMul(row[c], Exp(FAdd(drift, FMul(spread, random_values[c]))))]

\* np.zeros((num_steps, num_simulations)), then price_paths[0] = self.spot_price
InitialPaths(self) ==
    [t \in 0..(self.num_steps - 1) |->
        [c \in 0..(self.num_simulations - 1) |->
            IF t = 0 THEN self.spot_price ELSE F(0)]]

\* range(1, self.num_steps - 1): the last row is never written
StepRangeShort(num_steps) == [k \in 1..(IF num_steps > 1 THEN num_steps - 2 ELSE 0) |-> k]

\* range(1, self.num_steps)
StepRange(num_steps) == [k \in 1..(num_steps - 1) |-> k]

RECURSIVE FillRows(_, _, _, _, _)
\* the first k iterations of the loop over range: each draws num_simulations
\* values and assigns row t from row t - 1
FillRows(self, price_paths, rng, range, k) ==
    IF k = 0 THEN [rows |-> price_paths, rng |-> rng]
    ELSE LET before == FillRows(self, price_paths, rng, range, k - 1)
             t == range[k]
             draw == standard_normal(before.rng, self.num_simulations)
         IN  [rows |-> [before.rows EXCEPT
                           ![t] = GBMStep(self, before.rows[t - 1], draw.values)],
              rng |-> draw.rng]

\* simulate_price_paths without np.random.seed(20): the generator is used as found
simulate_price_paths_unseeded(self, rng, built) ==
    LET cleared == [self EXCEPT !.simulation_results = IsNone]
        range == StepRange(self.num_steps)
        paths == FillRows(cleared, InitialPaths(cleared), rng, range, Len(range))
    IN  [self |-> [cleared EXCEPT !.simulation_results = NdArray(built + 1, paths.rows)],
         rng |-> paths.rng,
         built |-> built + 1,
         out |-> Return(None)]

\* MonteCarloSimulation.simulate_price_paths on self, with the generator state and
\* the allocation count it finds
simulate_price_paths(self, rng, built) ==
    LET cleared == [self EXCEPT !.simulation_results = IsNone]
        range == StepRange(self.num_steps)
        paths == FillRows(cleared, InitialPaths(cleared), Seed(SEED), range, Len(range))
    IN  [self |-> [cleared EXCEPT !.simulation_results = NdArray(built + 1, paths.rows)],
         rng |-> paths.rng,
         built |-> built + 1,
         out |-> Return(None)]

RECURSIVE FSum(_, _)
\* the sum of row[0..n-1]
FSum(row, n) == IF n = 0 THEN F(0) ELSE FAdd(FSum(row, n - 1), row[n - 1])

\* np.mean
Mean(row, n) == FDiv(FSum(row, n), FromInt(n))

\* self.simulation_results[-1]
LastRow(self) == self.simulation_results.rows[self.num_steps - 1]

\* np.exp(-self.risk_free_rate * self.time_to_maturity) * np.mean(payoffs)
Discounted(self, payoffs) ==
    FMul(Exp(FMul(FNeg(self.risk_free_rate), self.time_to_maturity)),
         Mean(payoffs, self.num_simulations))

\* MonteCarloSimulation._compute_call_option_price: reading an attribute that was
\* never assigned raises AttributeError
_compute_call_option_price(self, rng, built) ==
    LET out ==
          IF self.simulation_results.state = "unset" THEN Raise("AttributeError")
          ELSE IF self.simulation_results.state = "None" THEN Return(PyInt(-1))
          ELSE Return(Discounted(self,
                  [c \in 0..(self.num_simulations - 1) |->
                      FMax(FSub(LastRow(self)[c], self.strike_price), F(0))]))
    IN  [self |-> self, rng |-> rng, built |-> built,
         out |-> [out EXCEPT !.routine = "MonteCarloSimulation._compute_call_option_price"]]

\* MonteCarloSimulation._compute_put_option_price
_compute_put_option_price(self, rng, built) ==
    LET out ==
          IF self.simulation_results.state = "unset" THEN Raise("AttributeError")
          ELSE IF self.simulation_results.state = "None" THEN Return(PyInt(-1))
          ELSE Return(Discounted(self,
                  [c \in 0..(self.num_simulations - 1) |->
                      FMax(FSub(self.strike_price, LastRow(self)[c]), F(0))]))
    IN  [self |-> self, rng |-> rng, built |-> built,
         out |-> [out EXCEPT !.routine = "MonteCarloSimulation._compute_put_option_price"]]

\* ------------------------------------- the Monte Carlo methods' receivers

\* MonteCarloSimulation(...) itself raises (NewMonteCarlo), so the receivers of
\* its methods are objects on which MonteCarloSimulation.__init__ has run: the
\* instances of a subclass that supplies the two hooks.
Receivers == {1, 2}

MCParams ==
    {MCInit(F(10 * Scale), F(10 * Scale), days, F(Scale \div 20), vol, sims) :
        days \in 1..MaxDays, vol \in Volatilities, sims \in 1..MaxSims}

NoPaths == [set |-> FALSE, rows |-> <<>>]

\* the step a Monte Carlo method makes on receiver e
MCStep(e, op, after) ==
    /\ engines' = [engines EXCEPT ![e] = after.self]
    /\ np_random' = after.rng
    /\ arrays_built' = after.built
    /\ result' = [Called(op, "", after.out) EXCEPT !.engine = e]
    /\ UNCHANGED binomial

\* engines[e].simulate_price_paths()
MCSimulate ==
    \E e \in Receivers :
        /\ arrays_built < MaxArrays
        /\ MCStep(e, "simulate_price_paths",
                  simulate_price_paths(engines[e], np_random, arrays_built))
        /\ prev_paths' = [prev_paths EXCEPT ![e] =
                            IF engines[e].simulation_results.state = "ndarray"
                            THEN [set |-> TRUE, rows |-> engines[e].simulation_results.rows]
                            ELSE NoPaths]

\* engines[e]._compute_call_option_price()
MCCallPrice ==
    \E e \in Receivers :
        /\ MCStep(e, "_compute_call_option_price",
                  _compute_call_option_price(engines[e], np_random, arrays_built))
        /\ UNCHANGED prev_paths

\* engines[e]._compute_put_option_price()
MCPutPrice ==
    \E e \in Receivers :
        /\ MCStep(e, "_compute_put_option_price",
                  _compute_put_option_price(engines[e], np_random, arrays_built))
        /\ UNCHANGED prev_paths

InitMC ==
    /\ binomial = NoObject
    /\ result = NoCall
    /\ engines \in [Receivers -> MCParams]
    /\ np_random \in 0..(RngModulus - 1)
    /\ arrays_built = 0
    /\ prev_paths = [e \in Receivers |-> NoPaths]

NextMC == MCSimulate \/ MCCallPrice \/ MCPutPrice

SpecMC == InitMC /\ [][NextMC]_vars

Init ==
    /\ binomial = NoObject
    /\ result = NoCall
    /\ engines = <<>>
    /\ np_random = 0
    /\ arrays_built = 0
    /\ prev_paths = <<>>

Next == NewBinomial \/ NewMonteCarlo \/ BinomialPrice

Spec == Init /\ [][Next]_vars

\* ============================================================== claims

PricedBy(label) == result.op = "compute_option_price" /\ result.label = label

\* C1: both engines satisfy the dispatch contract: the caller can construct a
\* Binomial and a MonteCarloSimulation engine, compute_option_price("Call Option")
\* returns what the engine's call valuation routine returns, and
\* compute_option_price("Put Option") what its put valuation routine returns.
C1_DispatchContract ==
    /\ result.op \in {"Binomial", "MonteCarloSimulation"} => result.kind = "return"
    /\ PricedBy(CALL) =>
          /\ result.routine = binomial.cls \o "._compute_call_price"
          /\ result.kind = _compute_call_price(binomial).kind
          /\ result.value = _compute_call_price(binomial).value
    /\ PricedBy(PUT) =>
          /\ result.routine = binomial.cls \o "._compute_put_price"
          /\ result.kind = _compute_put_price(binomial).kind
          /\ result.value = _compute_put_price(binomial).value

\* C2: for every label that is neither "Call Option" nor "Put Option",
\* compute_option_price fails with InvalidOptionType and returns no number.
C2_InvalidLabelRaises ==
    (result.op = "compute_option_price" /\ result.label \notin {CALL, PUT}) =>
        /\ result.kind = "raise"
        /\ result.error = "InvalidOptionType"

MCPriceOps == {"_compute_call_option_price", "_compute_put_option_price"}

Simulated(self) == self.simulation_results.state = "ndarray"

\* C3: a Monte Carlo price requested on an engine on which simulate_price_paths
\* was never invoked fails with SimulationNotRun: it returns no number and
\* fails with no other error.
C3_QueryBeforeSimulationRaises ==
    (/\ result.op \in MCPriceOps
     /\ engines[result.engine].simulation_results.state = "unset") =>
        /\ result.kind = "raise"
        /\ result.error = "SimulationNotRun"

\* no entry of the stored matrix is absent or still the zero np.zeros put there
Complete(self) ==
    /\ DOMAIN self.simulation_results.rows = 0..(self.num_steps - 1)
    /\ \A t \in 0..(self.num_steps - 1) :
          /\ DOMAIN self.simulation_results.rows[t] = 0..(self.num_simulations - 1)
          /\ \A c \in 0..(self.num_simulations - 1) :
                /\ IsFin(self.simulation_results.rows[t][c])
                /\ self.simulation_results.rows[t][c].v > 0

\* C4: once simulate_price_paths has completed on an engine, every call or put
\* query on it returns a price, simulates nothing (no draw, no new array) and
\* leaves the engine as it was; every later simulate_price_paths on it stores a
\* newly built matrix in place of the old one; and after either the engine holds
\* a completely filled ensemble.
C4_Lifecycle ==
    [][\A e \in Receivers :
         Simulated(engines[e]) =>
            /\ Simulated(engines'[e])
            /\ Complete(engines'[e])
            /\ (result'.engine = e /\ result'.op \in MCPriceOps) =>
                  /\ result'.kind = "return"
                  /\ IsFin(result'.value)
                  /\ engines'[e] = engines[e]
                  /\ np_random' = np_random
                  /\ arrays_built' = arrays_built
            /\ (result'.engine = e /\ result'.op = "simulate_price_paths") =>
                  /\ result'.kind = "return"
                  /\ arrays_built' = arrays_built + 1
                  /\ engines'[e].simulation_results.id = arrays_built'
                  /\ engines'[e].simulation_results.id # engines[e].simulation_results.id
                  /\ [engines'[e] EXCEPT !.simulation_results = Unset]
                        = [engines[e] EXCEPT !.simulation_results = Unset]]_vars

\* a receiver simulated twice and then asked for a put price
C4_Witness ==
    \E e \in Receivers :
        /\ result.engine = e
        /\ result.op = "_compute_put_option_price"
        /\ result.kind = "return"
        /\ prev_paths[e].set
        /\ engines[e].num_steps = MaxDays
        /\ engines[e].simulation_results.id >= 2

SameParameters(a, b) ==
    [a EXCEPT !.simulation_results = Unset] = [b EXCEPT !.simulation_results = Unset]

\* C5: any two runs of simulate_price_paths with identical parameters, on one
\* engine or on two and whatever state the generator was in before each, store
\* identical ensembles, and so give identical call and put prices.
C5_Deterministic ==
    /\ \A a, b \in Receivers :
          (Simulated(engines[a]) /\ Simulated(engines[b])
             /\ SameParameters(engines[a], engines[b])) =>
              /\ engines[a].simulation_results.rows = engines[b].simulation_results.rows
              /\ _compute_call_option_price(engines[a], 0, 0).out.value
                    = _compute_call_option_price(engines[b], 0, 0).out.value
              /\ _compute_put_option_price(engines[a], 0, 0).out.value
                    = _compute_put_option_price(engines[b], 0, 0).out.value
    /\ \A e \in Receivers :
          prev_paths[e].set =>
              prev_paths[e].rows = engines[e].simulation_results.rows

\* two receivers with the same parameters, each simulated (one of them twice),
\* with a volatility and a horizon that make the draws matter
C5_Witness ==
    /\ SameParameters(engines[1], engines[2])
    /\ Simulated(engines[1]) /\ Simulated(engines[2])
    /\ engines[1].simulation_results.id # engines[2].simulation_results.id
    /\ prev_paths[1].set
    /\ engines[1].volatility.v > 0
    /\ engines[1].num_steps >= 2
    /\ \E c \in 0..(engines[1].num_simulations - 1) :
          engines[1].simulation_results.rows[1][c] # engines[1].spot_price

\* C6: a Binomial engine with steps = 0 prices a call at max(spot - strike, 0)
\* and a put at max(strike - spot, 0) instead of failing.
C6_ZeroStepsPayoffAtSpot ==
    (result.op = "compute_option_price" /\ binomial.steps = 0) =>
        /\ PricedBy(CALL) =>
              /\ result.kind = "return"
              /\ result.value = FMax(FSub(binomial.spot_price, binomial.strike_price), F(0))
        /\ PricedBy(PUT) =>
              /\ result.kind = "return"
              /\ result.value = FMax(FSub(binomial.strike_price, binomial.spot_price), F(0))

\* exp(-rate * maturity) * max(forward intrinsic, 0), the forward intrinsic being
\* sign * (spot * exp(rate * maturity) - strike)
DiscountedIntrinsic(self, sign) ==
    LET forward == FMul(self.spot_price, Exp(FMul(self.risk_free_rate, self.time_to_maturity)))
        intrinsic == IF sign > 0 THEN FSub(forward, self.strike_price)
                     ELSE FSub(self.strike_price, forward)
    IN  FMul(Exp(FMul(FNeg(self.risk_free_rate), self.time_to_maturity)),
             FMax(intrinsic, F(0)))

\* a and b are finite and differ by at most 1% of 1.0
Close(a, b) ==
    /\ IsFin(a) /\ IsFin(b)
    /\ a.v - b.v <= Scale \div 100
    /\ b.v - a.v <= Scale \div 100

\* C7: with volatility = 0 and steps >= 1 the lattice engine returns a
\* well-defined number, the discounted intrinsic value, for a call and for a put.
C7_ZeroVolatilityDiscountedIntrinsic ==
    (/\ result.op = "compute_option_price"
     /\ binomial.volatility = F(0)
     /\ binomial.steps >= 1) =>
        /\ PricedBy(CALL) =>
              /\ result.kind = "return"
              /\ Close(result.value, DiscountedIntrinsic(binomial, 1))
        /\ PricedBy(PUT) =>
              /\ result.kind = "return"
              /\ Close(result.value, DiscountedIntrinsic(binomial, -1))

InUnitInterval(p) == FLeq(F(0), p) /\ FLeq(p, F(Scale))

\* C8: the lattice engine validates the up-probability: when p = (R - d)/(u - d)
\* (taken where u # d, so that p is a number) lies outside [0,1] the pricing
\* call fails with ArbitrageViolation, and whenever backward induction has run,
\* 0 <= p <= 1.
C8_UpProbabilityValidated ==
    (/\ result.op = "compute_option_price"
     /\ result.label \in {CALL, PUT}
     /\ binomial.steps >= 1
     /\ Locals(binomial).up_factor # Locals(binomial).down_factor) =>
        /\ ~InUnitInterval(Locals(binomial).prob_up) =>
              /\ result.kind = "raise"
              /\ result.error = "ArbitrageViolation"
        /\ Len(result.trace) > 1 => InUnitInterval(result.prob_up)

RECURSIVE ReferenceLevel(_, _, _, _)
\* the reference induction: level k of the tree has the nodes 0..steps-k, each
\* the discounted expectation of its two successors on level k-1 (level 0 is the
\* terminal payoff)
ReferenceLevel(loc, steps, payoff, k) ==
    IF k = 0 THEN payoff
    ELSE LET later == ReferenceLevel(loc, steps, payoff, k - 1)
         IN  [i \in 0..(steps - k) |-> Node(loc, later[i + 1], later[i])]

\* C9: the back-calculation makes exactly steps passes; after pass k the entries
\* 0..steps-k of the in-place vector are the reference values of tree level k
\* counted from maturity, index steps is never updated, and the returned
\* option_prices[0] is the root of the reference induction.
C9_InPlaceInductionMatchesReference ==
    (/\ result.op = "compute_option_price"
     /\ result.label \in {CALL, PUT}
     /\ result.kind = "return") =>
        LET steps == binomial.steps
            loc == Locals(binomial)
        IN  /\ Len(result.trace) = steps + 1
            /\ \A k \in 0..steps :
                  /\ \A i \in 0..(steps - k) :
                        result.trace[k + 1][i]
                           = ReferenceLevel(loc, steps, result.trace[1], k)[i]
                  /\ result.trace[k + 1][steps] = result.trace[1][steps]
            /\ result.value = ReferenceLevel(loc, steps, result.trace[1], steps)[0]

\* a call priced on the deepest lattice with a finite positive value, whose
\* in-place vector ends with entries that are no level of the tree
C9_Witness ==
    /\ PricedBy(CALL)
    /\ result.kind = "return"
    /\ binomial.steps = MaxSteps
    /\ IsFin(result.value) /\ result.value.v > 0
    /\ result.trace[MaxSteps + 1][MaxSteps - 1] # result.trace[2][MaxSteps - 1]

RECURSIVE ReferenceRows(_, _, _)
\* rows 0..n of the reference path matrix: row 0 is the spot price, every later
\* row one GBM update of the row before, drawn from the generator in order
ReferenceRows(self, rng, n) ==
    IF n = 0
    THEN [rows |-> [t \in {0} |-> [c \in 0..(self.num_simulations - 1) |-> self.spot_price]],
          rng |-> rng]
    ELSE LET before == ReferenceRows(self, rng, n - 1)
             draw == standard_normal(before.rng, self.num_simulations)
         IN  [rows |-> [t \in 0..n |->
                           IF t < n THEN before.rows[t]
                           ELSE GBMStep(self, before.rows[n - 1], draw.values)],
              rng |-> draw.rng]

\* C10: after simulate_price_paths on an engine with day-count D >= 1, row 0 is
\* the spot price on every path and the terminal row is row 0 after exactly D
\* GBM update steps of length dt, so that the simulated horizon is D * dt.
C10_FullHorizon ==
    \A e \in Receivers :
        Simulated(engines[e]) =>
            LET self == engines[e]
                D == self.num_steps
            IN  /\ \A c \in 0..(self.num_simulations - 1) :
                      self.simulation_results.rows[0][c] = self.spot_price
                /\ Cardinality(DOMAIN self.simulation_results.rows) - 1 = D
                /\ LastRow(self) = ReferenceRows(self, Seed(SEED), D).rows[D]

====
